---- MODULE Spec2Model ----
(***************************************************************************)
(* Puppeteers for puppet bots (meltingpot/python/utils/bots/puppeteers.py). *)
(*                                                                         *)
(* A puppeteer is an object with immutable configuration whose step        *)
(* method maps (timestep, prev_state) to (goal-augmented timestep,         *)
(* next_state).  The caller owns the per-episode state and threads it from *)
(* call to call.  The model is the caller's loop around one puppeteer      *)
(* instance, plus the two module-level helpers puppet_goals and            *)
(* puppet_timestep.                                                        *)
(*                                                                         *)
(* Conventions.  Python sequences are 0-based, TLA+ sequences 1-based:     *)
(* Python index i is TLA+ index i + 1.  A mapping (dict, immutabledict) is *)
(* a TLA+ function whose DOMAIN is the key set, so a missing key is a      *)
(* value outside the DOMAIN.  numpy element types are not modelled: a goal *)
(* vector is a sequence of 0 and 1.  Values the code only passes through   *)
(* (reward, discount) are opaque strings.                                  *)
(*                                                                         *)
(* Three specifications share the actions.  Spec: puppet_goals on drawn    *)
(* names, or one short episode at a time of any puppeteer on every kind of *)
(* observation, malformed ones included.  SpecSchedule: long episodes of   *)
(* the alternators and of the cleaner on a few observations.               *)
(* SpecEpisodes: two episodes served by one instance, calls interleaved.   *)
(***************************************************************************)
EXTENDS Integers, Sequences, FiniteSets

VARIABLES
    names,      \* puppet_goals: the argument of the call under way (a sequence)
    built,      \* puppet_goals: the outcome of that call
    puppeteer,  \* the puppeteer instance (self): its class and its fields
    state,      \* state[e]: the puppeteer state the caller of episode e holds
    timestep,   \* the caller's timestep object handed to the latest step call
    call,       \* the arguments of the latest step call, as they were on entry
    result,     \* what the latest step call gave back to the caller
    elapsed,    \* elapsed[e]: step calls that returned since episode e began
    log,        \* log[e]: what episode e has seen so far (history)
    alone,      \* alone[e]: episode e replayed alone on an instance of its own
    twin        \* twin[e]: the other alternator, stepped side by side

vars ==
    <<names, built, puppeteer, state, timestep, call, result, elapsed, log, alone,
      twin>>

----------------------------------------------------------------------------
(* Bounds of the model. *)

\* longest name sequence handed to puppet_goals
MaxNames == 4

\* agents in the clean-up substrate
NumAgents == 2

\* largest count of one resource in an inventory
MaxItems == 1

\* largest threshold a puppeteer is constructed with
MaxThreshold == 2

\* step calls per episode under Spec and SpecEpisodes (a first-step timestep
\* begins a new episode)
MaxSteps == 3

\* step calls per episode of an alternator under SpecSchedule
MaxAlternatorSteps == 1001

\* step calls per episode of the cleaner under SpecSchedule
MaxCleanerSteps == 120

----------------------------------------------------------------------------
(* Module-level constants of puppeteers.py. *)

GOAL_OBSERVATION_KEY == "GOAL"

CLEAN_UP_CLEAN_ACTION == 8

----------------------------------------------------------------------------
(* puppet_goals *)

\* mutant: the diagonal is off by one
eye_shifted(n) ==
    [i \in 1..n |-> [j \in 1..n |-> IF j = (i % n) + 1 THEN 1 ELSE 0]]

\* np.eye(n): row i (1-based) is the unit vector with its 1 at index i
eye(n) == [i \in 1..n |-> [j \in 1..n |-> IF i = j THEN 1 ELSE 0]]

\* the pairs zip(names, goals) yields, in order
zip(ns, goals) == [i \in 1..Len(ns) |-> <<ns[i], goals[i]>>]

\* immutabledict(pairs): a later pair with the same key replaces an earlier one
immutabledict(pairs) ==
    LET keys == {pairs[i][1] : i \in DOMAIN pairs}
        last(k) == CHOOSE i \in DOMAIN pairs :
                       /\ pairs[i][1] = k
                       /\ \A j \in DOMAIN pairs : pairs[j][1] = k => j <= i
    IN  [k \in keys |-> pairs[last(k)][2]]

\* puppet_goals(names): no check of the names, never raises
puppet_goals(ns) ==
    LET goals == eye(Len(ns))
    IN  [outcome |-> "ok", value |-> immutabledict(zip(ns, goals))]

\* _CLEAN_UP_GOALS = puppet_goals(['CLEAN', 'EAT'])
CLEAN_UP_GOALS == puppet_goals(<<"CLEAN", "EAT">>).value

\* _TWO_RESOURCE_GOALS = puppet_goals([...five names...])
TWO_RESOURCE_GOALS ==
    puppet_goals(<<"COLLECT_COOPERATE", "COLLECT_DEFECT", "DESTROY_COOPERATE",
                   "DESTROY_DEFECT", "INTERACT">>).value

----------------------------------------------------------------------------
(* Timesteps (dm_env.TimeStep: step_type, reward, discount, observation) *)

\* timestep.first()
first(ts) == ts.step_type = "FIRST"

\* mutant: the goal is written into the caller's observation
puppet_timestep_in_place(ts, goal) ==
    LET puppet_observation ==
            [k \in DOMAIN ts.observation \cup {GOAL_OBSERVATION_KEY} |->
                IF k = GOAL_OBSERVATION_KEY THEN goal ELSE ts.observation[k]]
        mutated == [ts EXCEPT !.observation = puppet_observation]
    IN  [returned |-> mutated, timestep |-> mutated]

\* mutant: an entry already under GOAL wins over the new goal
puppet_timestep_keep(ts, goal) ==
    LET puppet_observation ==
            [k \in DOMAIN ts.observation \cup {GOAL_OBSERVATION_KEY} |->
                IF k \in DOMAIN ts.observation THEN ts.observation[k] ELSE goal]
    IN  [returned |-> [ts EXCEPT !.observation = puppet_observation],
         timestep |-> ts]

\* puppet_timestep(timestep, goal): a new mapping built from the observation's
\* items and then GOAL=goal (which replaces an entry already under that key),
\* and a new timestep around it.  `returned` is the value returned, `timestep`
\* the argument object as the call leaves it.
puppet_timestep(ts, goal) ==
    LET puppet_observation ==
            [k \in DOMAIN ts.observation \cup {GOAL_OBSERVATION_KEY} |->
                IF k = GOAL_OBSERVATION_KEY THEN goal ELSE ts.observation[k]]
    IN  [returned |-> [ts EXCEPT !.observation = puppet_observation],
         timestep |-> ts]

\* A step call that raised: nothing is returned; the instance and the argument
\* objects are as they were.
Raised(error, self, ts) ==
    [outcome |-> error, self |-> self, timestep |-> ts]

\* A step call that returned (timestep, next_state).
Returned(pt, next_state, self) ==
    [outcome |-> "ok", returned |-> pt.returned, next_state |-> next_state,
     self |-> self, timestep |-> pt.timestep]

----------------------------------------------------------------------------
(* CleanupAlternateCleanFirst *)

CleanupAlternateCleanFirst_initial_state == 0

\* mutant: the windows end one step late
CleanupAlternateCleanFirst_goal_late(step_count) ==
    IF step_count <= 250 THEN CLEAN_UP_GOALS["CLEAN"]
    ELSE IF step_count <= 500 THEN CLEAN_UP_GOALS["EAT"]
    ELSE IF step_count <= 750 THEN CLEAN_UP_GOALS["CLEAN"]
    ELSE CLEAN_UP_GOALS["EAT"]

CleanupAlternateCleanFirst_goal(step_count) ==
    IF step_count < 250 THEN CLEAN_UP_GOALS["CLEAN"]
    ELSE IF step_count < 500 THEN CLEAN_UP_GOALS["EAT"]
    ELSE IF step_count < 750 THEN CLEAN_UP_GOALS["CLEAN"]
    ELSE CLEAN_UP_GOALS["EAT"]

\* mutant: the reset on a first-step timestep is left out
CleanupAlternateCleanFirst_step_no_reset(self, ts, prev_state) ==
    Returned(puppet_timestep(ts, CleanupAlternateCleanFirst_goal(prev_state)),
             prev_state + 1, self)

CleanupAlternateCleanFirst_step(self, ts, prev_state) ==
    LET prev == IF first(ts) THEN CleanupAlternateCleanFirst_initial_state
                ELSE prev_state
        goal == CleanupAlternateCleanFirst_goal(prev)
        next_state == prev + 1
    IN  Returned(puppet_timestep(ts, goal), next_state, self)

----------------------------------------------------------------------------
(* CleanupAlternateEatFirst *)

CleanupAlternateEatFirst_initial_state == 0

\* mutant: the last two windows were left as in the clean-first variant
CleanupAlternateEatFirst_goal_unswapped(step_count) ==
    IF step_count < 250 THEN CLEAN_UP_GOALS["EAT"]
    ELSE IF step_count < 500 THEN CLEAN_UP_GOALS["CLEAN"]
    ELSE IF step_count < 750 THEN CLEAN_UP_GOALS["CLEAN"]
    ELSE CLEAN_UP_GOALS["EAT"]

CleanupAlternateEatFirst_goal(step_count) ==
    IF step_count < 250 THEN CLEAN_UP_GOALS["EAT"]
    ELSE IF step_count < 500 THEN CLEAN_UP_GOALS["CLEAN"]
    ELSE IF step_count < 750 THEN CLEAN_UP_GOALS["EAT"]
    ELSE CLEAN_UP_GOALS["CLEAN"]

\* mutant: the step count lives on the instance, not in the caller's state
CleanupAlternateEatFirst_step_hidden(self, ts, prev_state) ==
    LET count == IF first(ts) \/ "step_count" \notin DOMAIN self
                 THEN 0 ELSE self.step_count
    IN  Returned(puppet_timestep(ts, CleanupAlternateEatFirst_goal(count)),
                 count + 1,
                 [class |-> self.class, step_count |-> count + 1])

CleanupAlternateEatFirst_step(self, ts, prev_state) ==
    LET prev == IF first(ts) THEN CleanupAlternateEatFirst_initial_state
                ELSE prev_state
        goal == CleanupAlternateEatFirst_goal(prev)
        next_state == prev + 1
    IN  Returned(puppet_timestep(ts, goal), next_state, self)

----------------------------------------------------------------------------
(* ConditionalCleaner *)

\* Python's None, and a value that is not None, for the `cleaning` entry
None == [is_none |-> TRUE, value |-> <<>>]
Some(v) == [is_none |-> FALSE, value |-> v]

\* ConditionalCleaner(threshold)
ConditionalCleaner_init(threshold) ==
    [class |-> "ConditionalCleaner", threshold |-> threshold]

ConditionalCleaner_initial_state ==
    [step_count |-> 0, clean_until |-> 0, cleaning |-> None]

\* observation['global']['actions'] == _CLEAN_UP_CLEAN_ACTION
is_cleaning(observation) ==
    LET actions == observation["global"]["actions"]
    IN  [i \in DOMAIN actions |-> actions[i] = CLEAN_UP_CLEAN_ACTION]

\* mutant: no smoothing, only the current step counts
smooth_cleaning_off(cleaning, prev_cleaning) == cleaning

\* np.logical_or(cleaning, prev_cleaning), prev_cleaning being cleaning when
\* the state holds None
smooth_cleaning(cleaning, prev_cleaning) ==
    LET prev == IF prev_cleaning.is_none THEN cleaning ELSE prev_cleaning.value
    IN  [i \in DOMAIN cleaning |-> cleaning[i] \/ prev[i]]

\* np.logical_and(not_me, np.logical_and(smooth_cleaning, near_river)).sum()
other_cleaners(observation, prev_cleaning) ==
    LET agent_slot == observation["agent_slot"]
        POSITION == observation["global"]["observations"]["POSITION"]
        not_me == [i \in DOMAIN agent_slot |-> 1 - agent_slot[i]]
        near_river == [i \in DOMAIN POSITION |-> POSITION[i][2] < 9]
        smooth == smooth_cleaning(is_cleaning(observation), prev_cleaning)
    IN  Cardinality({i \in DOMAIN not_me :
                        not_me[i] # 0 /\ smooth[i] /\ near_river[i]})

\* the keys lines 168-173 read, in the order they are read
ConditionalCleaner_has_keys(observation) ==
    /\ "agent_slot" \in DOMAIN observation
    /\ "global" \in DOMAIN observation
    /\ "observations" \in DOMAIN observation["global"]
    /\ "POSITION" \in DOMAIN observation["global"]["observations"]
    /\ "actions" \in DOMAIN observation["global"]

\* mutant: the smoothed vector is what the next state keeps
snapshot_smoothed(cleaning, prev_cleaning) ==
    Some(smooth_cleaning(cleaning, prev_cleaning))

\* line 193: the next state keeps `cleaning`, the vector of this step alone
snapshot(cleaning, prev_cleaning) == Some(cleaning)

\* mutant: too few other cleaners end the cleaning bout
rearm_reset(self, num_cleaners, step_count, clean_until) ==
    IF num_cleaners >= self.threshold THEN step_count + 100 ELSE 0

\* mutant: the cleaning bout is one step long
rearm_long(self, num_cleaners, step_count, clean_until) ==
    IF num_cleaners >= self.threshold THEN step_count + 101 ELSE clean_until

\* mutant: the cleaning bout is one step short
rearm_short(self, num_cleaners, step_count, clean_until) ==
    IF num_cleaners >= self.threshold THEN step_count + 99 ELSE clean_until

\* lines 180-182: enough other cleaners re-arm the cleaning bout
rearm(self, num_cleaners, step_count, clean_until) ==
    IF num_cleaners >= self.threshold THEN step_count + 100 ELSE clean_until

\* mutant: the step at clean_until still cleans
ConditionalCleaner_goal_inclusive(step_count, clean_until) ==
    IF step_count <= clean_until
    THEN CLEAN_UP_GOALS["CLEAN"]
    ELSE CLEAN_UP_GOALS["EAT"]

\* lines 184-187
ConditionalCleaner_goal(step_count, clean_until) ==
    IF step_count < clean_until
    THEN CLEAN_UP_GOALS["CLEAN"]
    ELSE CLEAN_UP_GOALS["EAT"]

ConditionalCleaner_step(self, ts, prev_state) ==
    LET prev == IF first(ts) THEN ConditionalCleaner_initial_state
                ELSE prev_state
        observation == ts.observation
        step_count == prev.step_count
    IN  IF ~ConditionalCleaner_has_keys(observation)
        THEN Raised("KeyError", self, ts)
        ELSE
        LET cleaning == is_cleaning(observation)
            clean_until ==
                rearm(self, other_cleaners(observation, prev.cleaning),
                      step_count, prev.clean_until)
            goal == ConditionalCleaner_goal(step_count, clean_until)
            next_state == [step_count |-> step_count + 1,
                           clean_until |-> clean_until,
                           cleaning |-> snapshot(cleaning, prev.cleaning)]
        IN  Returned(puppet_timestep(ts, goal), next_state, self)

----------------------------------------------------------------------------
(* GrimTwoResourceInTheMatrix *)

\* GrimTwoResourceInTheMatrix(threshold); resource indices are Python's 0 and 1
GrimTwoResourceInTheMatrix_init(threshold) ==
    [class |-> "GrimTwoResourceInTheMatrix", threshold |-> threshold,
     cooperate_resource_index |-> 1, defect_resource_index |-> 2]

GrimTwoResourceInTheMatrix_initial_state == 0

\* interaction_inventories[0], interaction_inventories[1]
get_focal_and_partner_inventory(ts) ==
    LET interaction_inventories == ts.observation["INTERACTION_INVENTORIES"]
    IN  <<interaction_inventories[1], interaction_inventories[2]>>

\* mutant: equal counts are a defection too
is_defection_or_equal(self, inventory) ==
    LET num_cooperate_resources == inventory[self.cooperate_resource_index]
        num_defect_resources == inventory[self.defect_resource_index]
    IN  num_defect_resources >= num_cooperate_resources

is_defection(self, inventory) ==
    LET num_cooperate_resources == inventory[self.cooperate_resource_index]
        num_defect_resources == inventory[self.defect_resource_index]
    IN  num_defect_resources > num_cooperate_resources

\* np.abs(x)
abs(x) == IF x < 0 THEN -x ELSE x

\* mutant: a step without a defection forgives the earlier ones
accumulate_forgiving(self, partner_defections, partner_inventory) ==
    IF is_defection(self, partner_inventory)
    THEN partner_defections + 1
    ELSE 0

\* lines 251-252: accumulate partner defections over the episode
accumulate(self, partner_defections, partner_inventory) ==
    IF is_defection(self, partner_inventory)
    THEN partner_defections + 1
    ELSE partner_defections

\* mutant: past the threshold the puppet destroys instead of collecting
GrimTwoResourceInTheMatrix_goal_destroy(self, partner_defections, inventory) ==
    LET num_cooperate_resources == inventory[self.cooperate_resource_index]
        num_defect_resources == inventory[self.defect_resource_index]
        ready_to_interact ==
            abs(num_defect_resources - num_cooperate_resources) > 0
    IN  IF ~ready_to_interact
        THEN IF partner_defections < self.threshold
             THEN TWO_RESOURCE_GOALS["COLLECT_COOPERATE"]
             ELSE TWO_RESOURCE_GOALS["DESTROY_COOPERATE"]
        ELSE TWO_RESOURCE_GOALS["INTERACT"]

\* lines 254-273: the goal, given the defection count and the own inventory
GrimTwoResourceInTheMatrix_goal(self, partner_defections, inventory) ==
    LET num_cooperate_resources == inventory[self.cooperate_resource_index]
        num_defect_resources == inventory[self.defect_resource_index]
        ready_to_interact ==
            abs(num_defect_resources - num_cooperate_resources) > 0
    IN  IF ~ready_to_interact
        THEN IF partner_defections < self.threshold
             THEN TWO_RESOURCE_GOALS["COLLECT_COOPERATE"]
             ELSE TWO_RESOURCE_GOALS["COLLECT_DEFECT"]
        ELSE TWO_RESOURCE_GOALS["INTERACT"]

\* mutant: a missing INVENTORY reads as an empty inventory
GrimTwoResourceInTheMatrix_step_default(self, ts, prev_state) ==
    LET prev == IF first(ts) THEN GrimTwoResourceInTheMatrix_initial_state
                ELSE prev_state
    IN  IF "INTERACTION_INVENTORIES" \notin DOMAIN ts.observation
        THEN Raised("KeyError", self, ts)
        ELSE
        LET partner_inventory == get_focal_and_partner_inventory(ts)[2]
            partner_defections == accumulate(self, prev, partner_inventory)
            inventory == IF "INVENTORY" \in DOMAIN ts.observation
                         THEN ts.observation["INVENTORY"] ELSE <<0, 0>>
            goal == GrimTwoResourceInTheMatrix_goal(
                        self, partner_defections, inventory)
        IN  Returned(puppet_timestep(ts, goal), partner_defections, self)

\* mutant: the goal is chosen from the count as it came in, before this
\* step's defection is added
GrimTwoResourceInTheMatrix_step_goal_first(self, ts, prev_state) ==
    LET prev == IF first(ts) THEN GrimTwoResourceInTheMatrix_initial_state
                ELSE prev_state
    IN  IF "INTERACTION_INVENTORIES" \notin DOMAIN ts.observation
        THEN Raised("KeyError", self, ts)
        ELSE
        LET partner_inventory == get_focal_and_partner_inventory(ts)[2]
            partner_defections == accumulate(self, prev, partner_inventory)
        IN  IF "INVENTORY" \notin DOMAIN ts.observation
            THEN Raised("KeyError", self, ts)
            ELSE
            LET goal == GrimTwoResourceInTheMatrix_goal(
                            self, prev, ts.observation["INVENTORY"])
            IN  Returned(puppet_timestep(ts, goal), partner_defections, self)

GrimTwoResourceInTheMatrix_step(self, ts, prev_state) ==
    LET prev == IF first(ts) THEN GrimTwoResourceInTheMatrix_initial_state
                ELSE prev_state
    IN  IF "INTERACTION_INVENTORIES" \notin DOMAIN ts.observation
        THEN Raised("KeyError", self, ts)
        ELSE
        LET partner_inventory == get_focal_and_partner_inventory(ts)[2]
            partner_defections == accumulate(self, prev, partner_inventory)
        IN  IF "INVENTORY" \notin DOMAIN ts.observation
            THEN Raised("KeyError", self, ts)
            ELSE
            LET goal == GrimTwoResourceInTheMatrix_goal(
                            self, partner_defections, ts.observation["INVENTORY"])
            IN  Returned(puppet_timestep(ts, goal), partner_defections, self)

----------------------------------------------------------------------------
(* The puppeteer interface: dispatch on the instance's class. *)

Puppeteers ==
    {[class |-> "CleanupAlternateCleanFirst"], [class |-> "CleanupAlternateEatFirst"]}
    \cup {ConditionalCleaner_init(t) : t \in 1..MaxThreshold}
    \cup {GrimTwoResourceInTheMatrix_init(t) : t \in 1..MaxThreshold}

initial_state(self) ==
    CASE self.class = "CleanupAlternateCleanFirst" ->
            CleanupAlternateCleanFirst_initial_state
      [] self.class = "CleanupAlternateEatFirst" ->
            CleanupAlternateEatFirst_initial_state
      [] self.class = "ConditionalCleaner" -> ConditionalCleaner_initial_state
      [] self.class = "GrimTwoResourceInTheMatrix" ->
            GrimTwoResourceInTheMatrix_initial_state

step(self, ts, prev_state) ==
    CASE self.class = "CleanupAlternateCleanFirst" ->
            CleanupAlternateCleanFirst_step(self, ts, prev_state)
      [] self.class = "CleanupAlternateEatFirst" ->
            CleanupAlternateEatFirst_step(self, ts, prev_state)
      [] self.class = "ConditionalCleaner" ->
            ConditionalCleaner_step(self, ts, prev_state)
      [] self.class = "GrimTwoResourceInTheMatrix" ->
            GrimTwoResourceInTheMatrix_step(self, ts, prev_state)

\* the goal vocabulary of the instance's family
vocabulary(self) ==
    IF self.class = "GrimTwoResourceInTheMatrix"
    THEN TWO_RESOURCE_GOALS ELSE CLEAN_UP_GOALS

----------------------------------------------------------------------------
(* The environment: the timesteps a caller may hand to step. *)

\* the keys of the observation the class of the puppeteer reads
Wellformed(self, observation) ==
    CASE self.class = "ConditionalCleaner" ->
            ConditionalCleaner_has_keys(observation)
      [] self.class = "GrimTwoResourceInTheMatrix" ->
            {"INTERACTION_INVENTORIES", "INVENTORY"} \subseteq DOMAIN observation
      [] OTHER -> TRUE

\* dm_env.restart, dm_env.transition, dm_env.termination
TimeStep(step_type, observation) ==
    [step_type |-> step_type,
     reward |-> IF step_type = "FIRST" THEN "None" ELSE "0.0",
     discount |-> CASE step_type = "FIRST" -> "None"
                    [] step_type = "MID" -> "1.0"
                    [] step_type = "LAST" -> "0.0",
     observation |-> observation]

StepTypes == {"FIRST", "MID", "LAST"}

\* the step types the puppeteers tell apart (they only ask timestep.first())
FirstOrMid == {"FIRST", "MID"}

\* an observation that already holds an entry under GOAL
WithGoal(observation, goal) ==
    [k \in DOMAIN observation \cup {GOAL_OBSERVATION_KEY} |->
        IF k = GOAL_OBSERVATION_KEY THEN goal ELSE observation[k]]

\* an observation with one entry missing
Without(observation, key) ==
    [k \in DOMAIN observation \ {key} |-> observation[k]]

Agents == 1..NumAgents

CleanupObservation(agent_slot, POSITION, actions) ==
    [agent_slot |-> agent_slot,
     global |-> [observations |-> [POSITION |-> POSITION], actions |-> actions]]

\* one-hot indicator of the focal agent
AgentSlots == {[i \in Agents |-> IF i = f THEN 1 ELSE 0] : f \in Agents}

\* (x, y) on either side of the river boundary y = 9
Positions == {<<9, 8>>, <<8, 9>>}

\* the clean action and another action
Actions == {0, CLEAN_UP_CLEAN_ACTION}

CleanupObservations ==
    {CleanupObservation(s, p, a) :
        s \in AgentSlots, p \in [Agents -> Positions], a \in [Agents -> Actions]}

\* observations of an integration that lacks a field the cleaner reads
MalformedCleanupObservations ==
    LET o == CleanupObservation([i \in Agents |-> IF i = 1 THEN 1 ELSE 0],
                                [i \in Agents |-> <<9, 8>>],
                                [i \in Agents |-> CLEAN_UP_CLEAN_ACTION])
    IN  {Without(o, "agent_slot"), Without(o, "global"),
         [o EXCEPT !["global"] = Without(o["global"], "actions")],
         [o EXCEPT !["global"] = Without(o["global"], "observations")],
         [o EXCEPT !["global"]["observations"] = <<>>]}

Inventories == [1..2 -> 0..MaxItems]

\* the focal row of the interaction record is empty or full of resource 1
TwoResourceObservations ==
    {[INTERACTION_INVENTORIES |-> <<f, p>>, INVENTORY |-> i] :
        f \in {<<0, 0>>, <<0, MaxItems>>}, p \in Inventories, i \in Inventories}

MalformedTwoResourceObservations ==
    LET o == [INTERACTION_INVENTORIES |-> <<(<<0, 0>>), (<<0, 1>>)>>,
              INVENTORY |-> <<0, 0>>]
    IN  {Without(o, "INTERACTION_INVENTORIES"), Without(o, "INVENTORY")}

\* a goal left in the observation by an earlier augmentation
StaleGoal == <<0, 1>>

\* a clean-up observation (every agent near the river, agent 1 focal) and a
\* two-resource observation that went through a puppeteer before
AugmentedCleanupObservations ==
    {WithGoal(CleanupObservation([i \in Agents |-> IF i = 1 THEN 1 ELSE 0],
                                 [i \in Agents |-> <<9, 8>>],
                                 [i \in Agents |-> a]), StaleGoal) :
        a \in Actions}

AugmentedTwoResourceObservations ==
    {WithGoal([INTERACTION_INVENTORIES |-> <<(<<0, 0>>), p>>,
               INVENTORY |-> <<0, 0>>], StaleGoal) :
        p \in {<<0, 0>>, <<0, 1>>}}

\* the alternators read nothing of the observation
AlternatorTimesteps ==
    {TimeStep(t, o) : t \in FirstOrMid,
        o \in AugmentedCleanupObservations
               \cup {Without(o, GOAL_OBSERVATION_KEY) :
                        o \in AugmentedCleanupObservations}}

CleanerTimesteps ==
    {TimeStep(t, o) : t \in FirstOrMid,
        o \in CleanupObservations \cup AugmentedCleanupObservations
               \cup MalformedCleanupObservations}

GrimTimesteps ==
    {TimeStep(t, o) : t \in FirstOrMid,
        o \in TwoResourceObservations \cup AugmentedTwoResourceObservations
               \cup MalformedTwoResourceObservations}

\* a few timesteps of each substrate, for the long and the interleaved runs:
\* every agent does the same, next to the river; the partner defects or not
FewCleanerTimesteps ==
    {TimeStep(t, CleanupObservation([i \in Agents |-> IF i = 1 THEN 1 ELSE 0],
                                    [i \in Agents |-> <<9, 8>>],
                                    [i \in Agents |-> a])) :
        t \in StepTypes, a \in Actions}

FewGrimTimesteps ==
    {TimeStep(t, [INTERACTION_INVENTORIES |-> <<(<<0, 0>>), p>>,
                  INVENTORY |-> <<0, 0>>]) :
        t \in StepTypes, p \in {<<1, 0>>, <<0, 1>>}}

FewTimesteps(self) ==
    IF self.class = "GrimTwoResourceInTheMatrix"
    THEN FewGrimTimesteps ELSE FewCleanerTimesteps

Timesteps(self) ==
    FewTimesteps(self) \cup
    CASE self.class = "ConditionalCleaner" -> CleanerTimesteps
      [] self.class = "GrimTwoResourceInTheMatrix" -> GrimTimesteps
      [] OTHER -> AlternatorTimesteps

\* states left over from an earlier, longer episode
StaleStates(self) ==
    CASE self.class = "ConditionalCleaner" ->
            {[step_count |-> 150, clean_until |-> 200, cleaning |-> None]}
      [] self.class = "GrimTwoResourceInTheMatrix" -> {MaxThreshold + 1}
      [] OTHER -> {300, 600}

----------------------------------------------------------------------------
(* The caller's loop. *)

Episodes == 1..2

NameSeqs == UNION {[1..n -> {"CLEAN", "EAT", "INTERACT"}] : n \in 0..MaxNames}

NoCall == [episode |-> 0]
NoResult == [outcome |-> "none"]
NoTimestep == [step_type |-> "none"]

\* nothing seen yet: the defection count has not reached the threshold, no
\* step of the episode had enough other cleaners, no interaction record showed
\* a defection, no actions were logged (recent holds the actions of the
\* latest step)
NoLog == [reached |-> FALSE, armed |-> -1, defections |-> 0, recent |-> <<>>]

\* the alternator of the other kind, for an alternator
Twin(self) ==
    CASE self.class = "CleanupAlternateCleanFirst" ->
            [class |-> "CleanupAlternateEatFirst"]
      [] self.class = "CleanupAlternateEatFirst" ->
            [class |-> "CleanupAlternateCleanFirst"]
      [] OTHER -> [class |-> "none"]

\* whether the step on ts counts at least `threshold` other cleaners, given the
\* state the episode is in
Triggers(self, ts, prev_state) ==
    /\ self.class = "ConditionalCleaner"
    /\ ConditionalCleaner_has_keys(ts.observation)
    /\ other_cleaners(ts.observation,
                      IF first(ts) THEN None ELSE prev_state.cleaning)
            >= self.threshold

\* the history of an episode after its step number k on ts returned next_state
Logged(self, ts, prev_state, k, next_state, before) ==
    [reached |->
        /\ self.class = "GrimTwoResourceInTheMatrix"
        /\ (~first(ts) /\ before.reached) \/ next_state >= self.threshold,
     armed |->
        IF Triggers(self, ts, prev_state) THEN k
        ELSE IF first(ts) THEN -1 ELSE before.armed,
     defections |->
        IF self.class = "GrimTwoResourceInTheMatrix"
        THEN (IF first(ts) THEN 0 ELSE before.defections)
             + (IF ts.observation["INTERACTION_INVENTORIES"][2][2]
                      > ts.observation["INTERACTION_INVENTORIES"][2][1]
                THEN 1 ELSE 0)
        ELSE 0,
     recent |->
        IF self.class = "ConditionalCleaner"
        THEN <<ts.observation["global"]["actions"]>>
        ELSE <<>>]

\* puppet_goals is about to be called on `names`; no puppeteer exists
InitBuilder ==
    /\ names \in NameSeqs
    /\ built = [outcome |-> "pending"]
    /\ puppeteer = [class |-> "none"]
    /\ state = [e \in Episodes |-> 0]
    /\ alone = [e \in Episodes |->
                    [self |-> puppeteer, state |-> 0, result |-> NoResult]]
    /\ elapsed = [e \in Episodes |-> 0]
    /\ log = [e \in Episodes |-> NoLog]
    /\ twin = [e \in Episodes |->
                    [self |-> [class |-> "none"], state |-> 0,
                     result |-> NoResult]]
    /\ timestep = NoTimestep
    /\ call = NoCall
    /\ result = NoResult

\* the puppeteer `self` has been constructed and each caller holds
\* initial_state()
Constructed(self) ==
    /\ names = <<>>
    /\ built = NoResult
    /\ puppeteer = self
    /\ state = [e \in Episodes |-> initial_state(puppeteer)]
    /\ alone = [e \in Episodes |->
                    [self |-> puppeteer, state |-> initial_state(puppeteer),
                     result |-> NoResult]]
    /\ twin = [e \in Episodes |->
                    [self |-> Twin(puppeteer),
                     state |-> IF Twin(puppeteer).class = "none" THEN 0
                               ELSE initial_state(Twin(puppeteer)),
                     result |-> NoResult]]
    /\ elapsed = [e \in Episodes |-> 0]
    /\ log = [e \in Episodes |-> NoLog]
    /\ timestep = NoTimestep
    /\ call = NoCall
    /\ result = NoResult

InitPuppeteer == \E self \in Puppeteers : Constructed(self)

Init == InitBuilder \/ InitPuppeteer

\* goals = puppet_goals(names)
Build ==
    /\ built.outcome = "pending"
    /\ built' = puppet_goals(names)
    /\ UNCHANGED <<names, puppeteer, state, timestep, call, result, elapsed, log,
                   alone, twin>>

\* the same call made on another instance `side` (a record of the instance,
\* the state its caller holds and the latest result): the state the caller of
\* episode e holds is replaced by the state this side's caller holds
Beside(side, e, ts, prev_state) ==
    LET a == step(side.self, ts,
                  IF prev_state = state[e] THEN side.state ELSE prev_state)
    IN  IF a.outcome = "ok"
        THEN [self |-> a.self, state |-> a.next_state,
              result |-> [outcome |-> "ok", timestep |-> a.returned,
                          next_state |-> a.next_state]]
        ELSE [self |-> a.self, state |-> side.state,
              result |-> [outcome |-> a.outcome]]

\* timestep, state[e] = puppeteer.step(timestep, prev_state): when step raises,
\* the assignment does not happen
StepCall(e, ts, prev_state) ==
    LET r == step(puppeteer, ts, prev_state)
        k == IF first(ts) THEN 0 ELSE elapsed[e]
    IN  /\ puppeteer.class # "none"
        /\ call = NoCall
        /\ call' = [episode |-> e, timestep |-> ts, prev_state |-> prev_state,
                    held |-> state[e], k |-> k, before |-> log[e]]
        /\ puppeteer' = r.self
        /\ timestep' = r.timestep
        /\ IF r.outcome = "ok"
           THEN /\ result' = [outcome |-> "ok", timestep |-> r.returned,
                              next_state |-> r.next_state]
                /\ state' = [state EXCEPT ![e] = r.next_state]
                /\ elapsed' = [elapsed EXCEPT ![e] = k + 1]
                /\ log' = [log EXCEPT ![e] =
                              Logged(puppeteer, ts, prev_state, k, r.next_state,
                                     log[e])]
           ELSE /\ result' = [outcome |-> r.outcome]
                /\ UNCHANGED <<state, elapsed, log>>
        /\ alone' = [alone EXCEPT ![e] = Beside(alone[e], e, ts, prev_state)]
        /\ twin' = [twin EXCEPT ![e] =
                        IF twin[e].self.class = "none" THEN twin[e]
                        ELSE Beside(twin[e], e, ts, prev_state)]
        /\ UNCHANGED <<names, built>>

\* the prev_state a caller passes: the state it holds or, with a first-step
\* timestep (here: one of the few, or a malformed one), whatever an earlier
\* episode left behind
PrevStates(e, ts) ==
    {state[e]} \cup
    (IF first(ts) /\ (ts \in FewTimesteps(puppeteer)
                        \/ ~Wellformed(puppeteer, ts.observation))
     THEN StaleStates(puppeteer) ELSE {})

\* a caller of one of the episodes es calls step on one of the timesteps tss,
\* in an episode of fewer than cap steps so far
Calls(es, tss, cap) ==
    \E e \in es : \E ts \in tss : \E prev_state \in PrevStates(e, ts) :
        /\ first(ts) \/ elapsed[e] < cap
        /\ StepCall(e, ts, prev_state)

\* one episode, every kind of timestep, episodes of at most MaxSteps steps
Step == Calls({1}, Timesteps(puppeteer), MaxSteps)

\* one long episode of an alternator or of the cleaner, on a few timesteps
StepSchedule ==
    Calls({1}, FewTimesteps(puppeteer),
          IF puppeteer.class = "ConditionalCleaner"
          THEN MaxCleanerSteps ELSE MaxAlternatorSteps)

\* two episodes served by the one instance, their calls interleaved
StepEpisodes == Calls(Episodes, FewTimesteps(puppeteer), MaxSteps)

\* the caller repeats the call it has just made, with the same arguments
Repeat ==
    /\ call # NoCall
    /\ LET r == step(puppeteer, call.timestep, call.prev_state)
       IN  /\ puppeteer' = r.self
           /\ timestep' = r.timestep
           /\ IF r.outcome = "ok"
              THEN /\ result' = [outcome |-> "ok", timestep |-> r.returned,
                                 next_state |-> r.next_state]
                   /\ state' = [state EXCEPT ![call.episode] = r.next_state]
              ELSE /\ result' = [outcome |-> r.outcome]
                   /\ UNCHANGED state
    /\ UNCHANGED <<names, built, call, elapsed, log, alone, twin>>

\* the caller forwards the returned timestep to the puppet (or gives the call
\* up after an exception) and turns to the environment for the next timestep
Forward ==
    /\ call # NoCall
    /\ call' = NoCall
    /\ result' = NoResult
    /\ timestep' = NoTimestep
    /\ alone' = [e \in Episodes |-> [alone[e] EXCEPT !.result = NoResult]]
    /\ twin' = [e \in Episodes |-> [twin[e] EXCEPT !.result = NoResult]]
    /\ UNCHANGED <<names, built, puppeteer, state, elapsed, log>>

Next == Build \/ Step \/ Forward

Spec == Init /\ [][Next]_vars

InitSchedule ==
    \E self \in Puppeteers :
        /\ self.class # "GrimTwoResourceInTheMatrix"
        /\ Constructed(self)

NextSchedule == StepSchedule \/ Forward

SpecSchedule == InitSchedule /\ [][NextSchedule]_vars

NextEpisodes == StepEpisodes \/ Repeat \/ Forward

SpecEpisodes == InitPuppeteer /\ [][NextEpisodes]_vars

----------------------------------------------------------------------------
(* Properties. *)

\* a step call has just returned or raised
Called == call # NoCall

\* a step call has just returned (timestep, next_state)
Ok == Called /\ result.outcome = "ok"

\* the goal in the timestep the latest call returned
Goal == result.timestep.observation[GOAL_OBSERVATION_KEY]

\* C1 (reset on first step): whatever prev_state a step on a first-step
\* timestep is given, it ends as the same call with prev_state =
\* initial_state() ends: the same outcome and, when it returns, the same
\* timestep (hence goal) and the same next state.
ResetOnFirstStep ==
    (Called /\ first(call.timestep)) =>
        LET r == step(puppeteer, call.timestep, initial_state(puppeteer))
        IN  /\ result.outcome = r.outcome
            /\ r.outcome = "ok" =>
                    /\ result.timestep = r.returned
                    /\ result.next_state = r.next_state

\* C1 witness: a first-step call that was handed the state of a long past
\* episode, and returned
ResetOnFirstStepWitness ==
    /\ Ok
    /\ first(call.timestep)
    /\ puppeteer.class = "ConditionalCleaner"
    /\ call.prev_state.step_count = 150
    /\ result.next_state.step_count = 1

\* C2 (grim trigger monotonicity): once partner_defections has reached the
\* threshold in an episode, no later step of the episode emits
\* COLLECT_COOPERATE.
GrimTriggerMonotone ==
    (Ok /\ puppeteer.class = "GrimTwoResourceInTheMatrix"
        /\ log[call.episode].reached) =>
        Goal # TWO_RESOURCE_GOALS["COLLECT_COOPERATE"]

\* C2 witness: the count reached the threshold at an earlier step of the
\* episode, and this step sees no defection and equal own counts
GrimTriggerMonotoneWitness ==
    /\ Ok
    /\ puppeteer.class = "GrimTwoResourceInTheMatrix"
    /\ ~first(call.timestep)
    /\ call.held >= puppeteer.threshold
    /\ call.prev_state = call.held
    /\ log[call.episode].reached
    /\ call.timestep.observation["INTERACTION_INVENTORIES"][2] = <<1, 0>>
    /\ call.timestep.observation["INVENTORY"] = <<1, 1>>
    /\ Goal = TWO_RESOURCE_GOALS["COLLECT_DEFECT"]

\* C6 (fail fast on malformed input): a ConditionalCleaner or Grim step whose
\* observation lacks a field the puppeteer reads ends in an error, on
\* first-step and later timesteps alike: nothing is returned and the caller
\* holds the state it held.
FailFast ==
    (Called /\ ~Wellformed(puppeteer, call.timestep.observation)) =>
        /\ result.outcome = "KeyError"
        /\ DOMAIN result = {"outcome"}
        /\ state[call.episode] = call.held

\* C6 witnesses: a malformed step in the middle of an episode
FailFastWitness ==
    /\ Called
    /\ ~Wellformed(puppeteer, call.timestep.observation)
    /\ ~first(call.timestep)
    /\ elapsed[call.episode] > 0
    /\ result.outcome = "KeyError"

\* the claim of C8 for the latest call, which returned
AugmentedByOneKey ==
    LET before == call.timestep
        after == result.timestep
    IN  /\ \A k \in DOMAIN before.observation :
              /\ k \in DOMAIN after.observation
              /\ after.observation[k] = before.observation[k]
        /\ GOAL_OBSERVATION_KEY \notin DOMAIN before.observation
        /\ DOMAIN after.observation =
              DOMAIN before.observation \cup {GOAL_OBSERVATION_KEY}
        /\ after.step_type = before.step_type
        /\ after.reward = before.reward
        /\ after.discount = before.discount
        /\ timestep = before

\* C8 as claimed (augmenter non-mutation, for every timestep): the returned
\* observation holds every entry of the input observation plus exactly one
\* new key, GOAL; the other fields are the input's; the input is unchanged.
AugmenterAddsOneKey == Ok => AugmentedByOneKey

\* C8 as amended: the same, for every timestep whose observation does not
\* hold an entry under GOAL already.
AugmenterAddsOneKeyUnlessPresent ==
    (Ok /\ GOAL_OBSERVATION_KEY \notin DOMAIN call.timestep.observation) =>
        AugmentedByOneKey

\* C8 witness: an observation without GOAL came back with it
AugmenterAddsOneKeyWitness ==
    /\ Ok
    /\ GOAL_OBSERVATION_KEY \notin DOMAIN call.timestep.observation
    /\ GOAL_OBSERVATION_KEY \in DOMAIN result.timestep.observation
    /\ Cardinality(DOMAIN result.timestep.observation) =
          Cardinality(DOMAIN call.timestep.observation) + 1

\* C9 (reserved key overwrite): when the input observation holds a GOAL
\* entry already, the returned GOAL entry is the goal this call selects (the
\* goal it returns for the same observation without that entry), not the
\* entry that was there, and the key set is the input's.
ReservedKeyOverwritten ==
    (Ok /\ GOAL_OBSERVATION_KEY \in DOMAIN call.timestep.observation) =>
        LET bare == [call.timestep EXCEPT !.observation =
                        Without(call.timestep.observation, GOAL_OBSERVATION_KEY)]
            r == step(puppeteer, bare, call.prev_state)
        IN  /\ r.outcome = "ok"
            /\ Goal = r.returned.observation[GOAL_OBSERVATION_KEY]
            /\ DOMAIN result.timestep.observation =
                  DOMAIN call.timestep.observation

\* C9 witness: the GOAL entry of the input was another goal
ReservedKeyOverwrittenWitness ==
    /\ Ok
    /\ GOAL_OBSERVATION_KEY \in DOMAIN call.timestep.observation
    /\ call.timestep.observation[GOAL_OBSERVATION_KEY] = StaleGoal
    /\ Goal # StaleGoal

\* no name occurs twice in ns
Distinct(ns) == \A i, j \in DOMAIN ns : ns[i] = ns[j] => i = j

\* v is the unit vector of length n with its 1 at index i
OneHot(v, n, i) ==
    /\ DOMAIN v = 1..n
    /\ \A j \in 1..n : v[j] = IF j = i THEN 1 ELSE 0

Dot(u, v) ==
    LET sum[j \in 0..Len(u)] == IF j = 0 THEN 0 ELSE sum[j - 1] + u[j] * v[j]
    IN  sum[Len(u)]

\* C7 as claimed (duplicate names are rejected): puppet_goals on a name
\* sequence that holds a name twice ends in an error, not in a mapping.
DuplicateNamesRejected ==
    (built.outcome \notin {"none", "pending"} /\ ~Distinct(names)) =>
        built.outcome # "ok"

\* C10 (one-hot invariant): for n distinct names puppet_goals returns n
\* entries, the vector of the name at index i being the unit vector of length
\* n with its 1 at i, so that two different names have orthogonal vectors;
\* and every goal a step emits is a vector of the puppeteer's vocabulary.
OneHotGoals ==
    /\ (built.outcome = "ok" /\ Distinct(names)) =>
          /\ DOMAIN built.value = {names[i] : i \in DOMAIN names}
          /\ Cardinality(DOMAIN built.value) = Len(names)
          /\ \A i \in DOMAIN names :
                OneHot(built.value[names[i]], Len(names), i)
          /\ \A i, j \in DOMAIN names :
                i # j => Dot(built.value[names[i]], built.value[names[j]]) = 0
    /\ Ok =>
          \E n \in DOMAIN vocabulary(puppeteer) :
              /\ Goal = vocabulary(puppeteer)[n]
              /\ \E i \in 1..Cardinality(DOMAIN vocabulary(puppeteer)) :
                    OneHot(Goal, Cardinality(DOMAIN vocabulary(puppeteer)), i)

\* C10 witness: puppet_goals returned for three distinct names
OneHotGoalsWitness ==
    /\ built.outcome = "ok"
    /\ Distinct(names)
    /\ Len(names) = 3
    /\ built.value[names[2]] = <<0, 1, 0>>

\* C3 (threshold-cleaner re-arm): if the count of other cleaners is >=
\* threshold at step t of an episode, the goal is CLEAN at steps t .. t+99,
\* and it is EAT at step t+100 when the count is below threshold at every
\* step t+1 .. t+100.  (log.armed is the latest such step t up to now.)
CleanerRearm ==
    (Ok /\ puppeteer.class = "ConditionalCleaner"
        /\ log[call.episode].armed # -1) =>
        LET since == call.k - log[call.episode].armed
        IN  /\ since >= 0
            /\ since <= 99 => Goal = CLEAN_UP_GOALS["CLEAN"]
            /\ since = 100 => Goal = CLEAN_UP_GOALS["EAT"]

\* C3 witness: a bout armed in mid-episode runs out
CleanerRearmWitness ==
    /\ Ok
    /\ puppeteer.class = "ConditionalCleaner"
    /\ log[call.episode].armed >= 1
    /\ call.k = log[call.episode].armed + 100
    /\ Goal = CLEAN_UP_GOALS["EAT"]

\* C4 (alternator schedule): the goal CleanupAlternateCleanFirst emits at its
\* k-th step call since the latest first-step timestep (k = 0 for that call)
\* is CLEAN for 0 <= k < 250 and 500 <= k < 750, EAT for 250 <= k < 500 and
\* for every k >= 750.
AlternatorSchedule ==
    (Ok /\ puppeteer.class = "CleanupAlternateCleanFirst") =>
        LET k == call.k
            CLEAN == <<1, 0>>
            EAT == <<0, 1>>
        IN  /\ (0 <= k /\ k < 250) => Goal = CLEAN
            /\ (250 <= k /\ k < 500) => Goal = EAT
            /\ (500 <= k /\ k < 750) => Goal = CLEAN
            /\ k >= 750 => Goal = EAT
            /\ k \in {0, 249, 500, 749} => Goal = CLEAN_UP_GOALS["CLEAN"]
            /\ k \in {250, 499, 750, 1000} => Goal = CLEAN_UP_GOALS["EAT"]

\* C4 witness: step 1000 of an episode
AlternatorScheduleWitness ==
    /\ Ok
    /\ puppeteer.class = "CleanupAlternateCleanFirst"
    /\ call.k = 1000
    /\ Goal = <<0, 1>>

\* C5, in every state: the instance holds what its constructor gave it; each
\* episode holds the state, and the latest call got the result, that the
\* episode gets when it is run alone on an instance of its own
EpisodesIsolated ==
    /\ puppeteer \in Puppeteers
    /\ \A e \in Episodes :
          /\ alone[e].self = puppeteer
          /\ state[e] = alone[e].state
    /\ Called => result = alone[call.episode].result

\* C5, in every step: a call repeated with the same arguments gives the same
\* result
RepeatedCallAgrees ==
    (call # NoCall /\ call' = call) =>
        /\ result' = result
        /\ state' = state
        /\ puppeteer' = puppeteer

\* C5 (determinism and episode isolation): the result of step depends only
\* on (timestep, prev_state) and the configuration; two episodes served by
\* one instance, their calls interleaved in any order, each get what they
\* get when run alone; a repeated call returns the same.
DeterministicAndIsolated == []EpisodesIsolated /\ [][RepeatedCallAgrees]_vars

\* C5 witness: the second episode is served while the first is under way and
\* ahead of it
DeterministicAndIsolatedWitness ==
    /\ Ok
    /\ puppeteer.class = "ConditionalCleaner"
    /\ call.episode = 2
    /\ ~first(call.timestep)
    /\ elapsed[1] = 3
    /\ elapsed[2] = 2
    /\ state[1].clean_until # state[2].clean_until

\* the latest call was made on an alternator
Alternator ==
    puppeteer.class \in {"CleanupAlternateCleanFirst", "CleanupAlternateEatFirst"}

\* the goal the twin alternator emitted for the latest call
TwinGoal ==
    twin[call.episode].result.timestep.observation[GOAL_OBSERVATION_KEY]

\* C11 (eat-first is the complement of clean-first): the two alternators being
\* stepped side by side on the same timesteps from a first-step timestep on,
\* at every step one emits CLEAN and the other emits EAT, and their step
\* counters are equal.
AlternatorsComplementary ==
    (Ok /\ Alternator) =>
        /\ twin[call.episode].result.outcome = "ok"
        /\ {Goal, TwinGoal} = {CLEAN_UP_GOALS["CLEAN"], CLEAN_UP_GOALS["EAT"]}
        /\ Goal # TwinGoal
        /\ twin[call.episode].result.next_state = result.next_state
        /\ twin[call.episode].state = state[call.episode]
        /\ state[call.episode] = call.k + 1

\* C11 witness: in the third window, away from its boundaries, clean-first
\* emits CLEAN and eat-first EAT
AlternatorsComplementaryWitness ==
    /\ Ok
    /\ puppeteer.class = "CleanupAlternateCleanFirst"
    /\ twin[call.episode].self.class = "CleanupAlternateEatFirst"
    /\ call.k = 600
    /\ Goal = <<1, 0>>
    /\ TwinGoal = <<0, 1>>

\* the latest call was made on a ConditionalCleaner
Cleaner == puppeteer.class = "ConditionalCleaner"

\* the state the latest call started from
Prev ==
    IF first(call.timestep) THEN initial_state(puppeteer) ELSE call.prev_state

\* the agents that qualify at the step of the latest call: not the focal
\* agent, second position coordinate < 9, and the clean action logged at this
\* step or at the step before it in the episode
QualifyingCleaners ==
    LET observation == call.timestep.observation
        now == observation["global"]["actions"]
        earlier == IF first(call.timestep) \/ Len(call.before.recent) = 0
                   THEN now ELSE call.before.recent[1]
    IN  {i \in Agents :
            /\ observation["agent_slot"][i] = 0
            /\ observation["global"]["observations"]["POSITION"][i][2] < 9
            /\ now[i] = 8 \/ earlier[i] = 8}

QualifyingCount == Cardinality(QualifyingCleaners)

\* C12 as claimed (constructor documentation of ConditionalCleaner): a step at
\* which the count of other qualifying cleaners is below threshold switches
\* the puppeteer to the CLEAN goal.
BelowThresholdCleans ==
    (Ok /\ Cleaner /\ QualifyingCount < puppeteer.threshold) =>
        Goal = CLEAN_UP_GOALS["CLEAN"]

\* C13 as claimed (cleaner snapshot persistence): the snapshot stored in the
\* next state is the element-wise OR of the current call's is-cleaning vector
\* and the previous state's snapshot.
SnapshotIsSmoothed ==
    (Ok /\ Cleaner) =>
        LET actions == call.timestep.observation["global"]["actions"]
            now == [i \in Agents |-> actions[i] = 8]
            before == IF Prev.cleaning.is_none THEN now ELSE Prev.cleaning.value
        IN  /\ ~result.next_state.cleaning.is_none
            /\ result.next_state.cleaning.value =
                  [i \in Agents |-> now[i] \/ before[i]]

\* C13 as amended: the snapshot stored in the next state is the is-cleaning
\* vector of the current call alone.
SnapshotIsCurrent ==
    (Ok /\ Cleaner) =>
        LET actions == call.timestep.observation["global"]["actions"]
        IN  /\ ~result.next_state.cleaning.is_none
            /\ result.next_state.cleaning.value =
                  [i \in Agents |-> actions[i] = 8]

\* C13 witness: an agent that was in the previous snapshot and does not clean
\* now is not in the new snapshot
SnapshotIsCurrentWitness ==
    /\ Ok
    /\ Cleaner
    /\ ~first(call.timestep)
    /\ ~call.prev_state.cleaning.is_none
    /\ \E i \in Agents :
          /\ call.prev_state.cleaning.value[i]
          /\ call.timestep.observation["global"]["actions"][i] # 8
          /\ ~result.next_state.cleaning.value[i]

\* C14 (two-step window of the qualifying-cleaner count): the count compared
\* with threshold at step t is the number of agents other than the focal one
\* whose second position coordinate at t is < 9 and whose logged action is
\* the clean action at step t or at step t-1 of the episode (t only, at the
\* first step); the bout is re-armed at t exactly when that number is >=
\* threshold.
QualifyingCountWindow ==
    (Ok /\ Cleaner) =>
        /\ other_cleaners(call.timestep.observation, Prev.cleaning)
              = QualifyingCount
        /\ result.next_state.clean_until = call.k + 100
              <=> QualifyingCount >= puppeteer.threshold

\* C14 witness: at the third step of an episode (t = 2) the count is 0 and
\* the bout is not re-armed, although another agent is next to the river and
\* the focal agent cleans now: no other agent logged the clean action at
\* steps 1 and 2, and the clean action that armed the bout at step 1 was
\* logged at step 0
QualifyingCountWindowWitness ==
    /\ Ok
    /\ Cleaner
    /\ call.k = 2
    /\ call.before.armed = 1
    /\ \A i \in Agents : call.before.recent[1][i] # 8
    /\ QualifyingCount = 0
    /\ result.next_state.clean_until = 101
    /\ \E i, f \in Agents :
          LET observation == call.timestep.observation
          IN  /\ observation["agent_slot"][i] = 0
              /\ observation["global"]["observations"]["POSITION"][i][2] < 9
              /\ observation["global"]["actions"][i] # 8
              /\ observation["agent_slot"][f] = 1
              /\ observation["global"]["observations"]["POSITION"][f][2] < 9
              /\ observation["global"]["actions"][f] = 8

\* C15 (cleaner state update): every step advances step_count by one; it sets
\* clean_until to step_count + 100 when the qualifying count is >= threshold
\* and leaves clean_until as it came in otherwise (step_count and clean_until
\* being 0 on a first-step timestep).
CleanerStateUpdate ==
    (Ok /\ Cleaner) =>
        LET step_count == IF first(call.timestep) THEN 0
                          ELSE call.prev_state.step_count
            clean_until == IF first(call.timestep) THEN 0
                           ELSE call.prev_state.clean_until
        IN  /\ result.next_state.step_count = step_count + 1
            /\ QualifyingCount >= puppeteer.threshold =>
                    result.next_state.clean_until = step_count + 100
            /\ QualifyingCount < puppeteer.threshold =>
                    result.next_state.clean_until = clean_until
            /\ state[call.episode] = result.next_state

\* C15 witness: a step below threshold during a bout leaves clean_until alone
CleanerStateUpdateWitness ==
    /\ Ok
    /\ Cleaner
    /\ ~first(call.timestep)
    /\ QualifyingCount < puppeteer.threshold
    /\ call.prev_state.clean_until = 100
    /\ call.prev_state.step_count = 2
    /\ result.next_state = [step_count |-> 3, clean_until |-> 100,
                            cleaning |-> result.next_state.cleaning]

\* the latest call was made on a GrimTwoResourceInTheMatrix
Grim == puppeteer.class = "GrimTwoResourceInTheMatrix"

\* C16 (grim defection counting): the returned partner_defections is the
\* incoming count (0 on a first-step timestep) plus 1 when row 1 of
\* INTERACTION_INVENTORIES has strictly more of resource 1 than of resource 0,
\* plus 0 otherwise; within an episode it never decreases, grows by at most 1
\* per step, is the number of steps so far whose interaction record showed a
\* defection, and is 0 or 1 right after the first step.
GrimDefectionCounting ==
    (Ok /\ Grim) =>
        LET incoming == IF first(call.timestep) THEN 0 ELSE call.prev_state
            partner == call.timestep.observation["INTERACTION_INVENTORIES"][2]
            defected == partner[2] > partner[1]
        IN  /\ result.next_state = incoming + (IF defected THEN 1 ELSE 0)
            /\ partner[2] = partner[1] => result.next_state = incoming
            /\ result.next_state = log[call.episode].defections
            /\ ~first(call.timestep) =>
                    /\ result.next_state >= call.held
                    /\ result.next_state <= call.held + 1
            /\ call.k = 0 => result.next_state \in {0, 1}
            /\ state[call.episode] = result.next_state

\* C16 witness: after one defection, an interaction record with equal,
\* non-zero counts leaves the counter at 1
GrimDefectionCountingWitness ==
    /\ Ok
    /\ Grim
    /\ ~first(call.timestep)
    /\ call.k = 2
    /\ call.prev_state = 1
    /\ call.timestep.observation["INTERACTION_INVENTORIES"][2] = <<1, 1>>
    /\ result.next_state = 1
    /\ log[call.episode].defections = 1

\* C17 (grim goal selection): the goal is INTERACT exactly when the focal
\* INVENTORY counts of resource 0 and resource 1 differ; when they are equal
\* it is COLLECT_COOPERATE if the defection count, this step's own defection
\* included, is < threshold and COLLECT_DEFECT otherwise.
GrimGoalSelection ==
    (Ok /\ Grim) =>
        LET inventory == call.timestep.observation["INVENTORY"]
            count == log[call.episode].defections
        IN  /\ Goal = TWO_RESOURCE_GOALS["INTERACT"]
                  <=> inventory[1] # inventory[2]
            /\ (inventory[1] = inventory[2] /\ count < puppeteer.threshold) =>
                    Goal = TWO_RESOURCE_GOALS["COLLECT_COOPERATE"]
            /\ (inventory[1] = inventory[2] /\ count >= puppeteer.threshold) =>
                    Goal = TWO_RESOURCE_GOALS["COLLECT_DEFECT"]

\* C17 witness: the defection that brings the count to the threshold is seen
\* at this very step, and the goal of this step is COLLECT_DEFECT already
GrimGoalSelectionWitness ==
    /\ Ok
    /\ Grim
    /\ ~first(call.timestep)
    /\ puppeteer.threshold = 2
    /\ call.prev_state = 1
    /\ result.next_state = 2
    /\ call.timestep.observation["INVENTORY"] = <<1, 1>>
    /\ Goal = TWO_RESOURCE_GOALS["COLLECT_DEFECT"]

\* C20 (grim goal range): every goal GrimTwoResourceInTheMatrix.step emits is
\* one of COLLECT_COOPERATE, COLLECT_DEFECT, INTERACT, never DESTROY_COOPERATE
\* or DESTROY_DEFECT, for every timestep and every prev_state.
GrimGoalRange ==
    (Ok /\ Grim) =>
        /\ Goal \in {TWO_RESOURCE_GOALS["COLLECT_COOPERATE"],
                      TWO_RESOURCE_GOALS["COLLECT_DEFECT"],
                      TWO_RESOURCE_GOALS["INTERACT"]}
        /\ Goal \notin {TWO_RESOURCE_GOALS["DESTROY_COOPERATE"],
                         TWO_RESOURCE_GOALS["DESTROY_DEFECT"]}
        /\ Goal \in {<<1, 0, 0, 0, 0>>, <<0, 1, 0, 0, 0>>, <<0, 0, 0, 0, 1>>}

\* C20 witness: with the count past the threshold and equal own counts, the
\* goal is COLLECT_DEFECT
GrimGoalRangeWitness ==
    /\ Ok
    /\ Grim
    /\ result.next_state > puppeteer.threshold
    /\ call.timestep.observation["INVENTORY"] = <<0, 0>>
    /\ Goal = <<0, 1, 0, 0, 0>>

\* C18 (cleaning only after a recent trigger): ConditionalCleaner emits CLEAN
\* at step t only if the qualifying count was >= threshold at some step s of
\* the same episode with t-99 <= s <= t; an episode whose count stays below
\* threshold emits EAT only, and the goal is EAT from the 100th step after the
\* latest such s on.  (log.armed is the latest such s, -1 when there is none.)
CleanOnlyAfterTrigger ==
    (Ok /\ Cleaner) =>
        LET armed == log[call.episode].armed
        IN  /\ Goal = CLEAN_UP_GOALS["CLEAN"] =>
                    /\ armed # -1
                    /\ call.k - 99 <= armed
                    /\ armed <= call.k
            /\ armed = -1 => Goal = CLEAN_UP_GOALS["EAT"]
            /\ (armed # -1 /\ call.k - armed >= 100) =>
                    Goal = CLEAN_UP_GOALS["EAT"]

\* C18 witness: well past the end of a bout armed in mid-episode, the goal is
\* EAT
CleanOnlyAfterTriggerWitness ==
    /\ Ok
    /\ Cleaner
    /\ log[call.episode].armed >= 1
    /\ call.k = log[call.episode].armed + 110
    /\ Goal = CLEAN_UP_GOALS["EAT"]

\* C19 (cleaner state invariant): in every state threaded from a first-step
\* timestep, step_count >= 1 and is the number of steps taken in the episode,
\* 0 <= clean_until <= step_count + 99, clean_until is 0 or s + 100 for an
\* earlier step s of the episode, and clean_until never decreases from one
\* step of the episode to the next.
CleanerStateInvariant ==
    Cleaner =>
        /\ \A e \in Episodes :
              elapsed[e] > 0 =>
                  /\ state[e].step_count >= 1
                  /\ state[e].step_count = elapsed[e]
                  /\ 0 <= state[e].clean_until
                  /\ state[e].clean_until <= state[e].step_count + 99
                  /\ state[e].clean_until =
                        IF log[e].armed = -1 THEN 0 ELSE log[e].armed + 100
                  /\ log[e].armed < state[e].step_count
        /\ (Ok /\ ~first(call.timestep)) =>
                result.next_state.clean_until >= call.held.clean_until

\* C19 witness: 50 steps into an episode, the bout armed at step 30 is on
CleanerStateInvariantWitness ==
    /\ Cleaner
    /\ elapsed[1] = 50
    /\ log[1].armed = 30
    /\ state[1].step_count = 50
    /\ state[1].clean_until = 130

====
